---- MODULE Spec2Model ----
(***************************************************************************)
(* Model of flow_log_parser.py: load_lookup_table, parse_flow_logs and     *)
(* save_results, run in sequence by main.  A Python str is a sequence of   *)
(* code points, a dict is a function whose DOMAIN is its key set, a list   *)
(* is a sequence.  One step of the model is one iteration of a `for line   *)
(* in file` loop, a return, or the whole of save_results.  The two input   *)
(* files exist and are readable; their contents are drawn from small sets  *)
(* of lines, the lookup file at the start and the log file when            *)
(* parse_flow_logs opens it.                                               *)
(***************************************************************************)
EXTENDS Integers, Sequences, FiniteSets, TLC

\* ------------------------------------------------------------------------
\* Bounds of the model: the number of lines of the two input files.
MaxLookupLines == 2
MaxLogLines == 2

\* ------------------------------------------------------------------------
\* String literals of the program.

\* ',' : the delimiter of line.split(',') and of the report rows
Comma == 44
\* '\n' : the row terminator of the report
Newline == 10
\* len(fields) < 14
MinFields == 14
\* 'tcp'
S_tcp == <<116, 99, 112>>
\* 'udp'
S_udp == <<117, 100, 112>>
\* 'icmp'
S_icmp == <<105, 99, 109, 112>>
\* '6'
S_6 == <<54>>
\* '17'
S_17 == <<49, 55>>
\* 'Untagged'
S_Untagged == <<85, 110, 116, 97, 103, 103, 101, 100>>
\* 'Tag Counts:\n'
HdrTagCounts == <<84, 97, 103, 32, 67, 111, 117, 110, 116, 115, 58, 10>>
\* 'Tag,Count\n'
HdrTagCols == <<84, 97, 103, 44, 67, 111, 117, 110, 116, 10>>
\* '\nPort/Protocol Combination Counts:\n'
HdrPortCounts ==
    <<10, 80, 111, 114, 116, 47, 80, 114, 111, 116, 111, 99, 111, 108, 32,
      67, 111, 109, 98, 105, 110, 97, 116, 105, 111, 110, 32, 67, 111, 117,
      110, 116, 115, 58, 10>>
\* 'Port,Protocol,Count\n'
HdrPortCols ==
    <<80, 111, 114, 116, 44, 80, 114, 111, 116, 111, 99, 111, 108, 44, 67,
      111, 117, 110, 116, 10>>

\* ------------------------------------------------------------------------
\* The lines the input files are drawn from.

\* '25,tcp,sv_P1\n'
LK_sv_p1 == <<50, 53, 44, 116, 99, 112, 44, 115, 118, 95, 80, 49, 10>>
\* '25, tcp ,Untagged\n'
LK_untagged ==
    <<50, 53, 44, 32, 116, 99, 112, 32, 44, 85, 110, 116, 97, 103, 103, 101,
      100, 10>>
\* ' 100,UDP,sv_p2'
LK_sv_p2 == <<32, 49, 48, 48, 44, 85, 68, 80, 44, 115, 118, 95, 112, 50>>
\* '\n'
LK_blank == <<10>>
\* '25 tcp sv_p1\n'
LK_nocomma == <<50, 53, 32, 116, 99, 112, 32, 115, 118, 95, 112, 49, 10>>
\* '25,tcp\n'
LK_onecomma == <<50, 53, 44, 116, 99, 112, 10>>
\* '25,tcp,sv_p1,x\n'
LK_threecommas ==
    <<50, 53, 44, 116, 99, 112, 44, 115, 118, 95, 112, 49, 44, 120, 10>>

LookupLines ==
    {LK_sv_p1, LK_untagged, LK_sv_p2, LK_blank, LK_nocomma, LK_onecomma,
     LK_threecommas}

\* '2 1 e s 25 d 6 p b t u v A O\n'
LG_25_tcp ==
    <<50, 32, 49, 32, 101, 32, 115, 32, 50, 53, 32, 100, 32, 54, 32, 112, 32,
      98, 32, 116, 32, 117, 32, 118, 32, 65, 32, 79, 10>>
\* '  2\t1 e s 100 d 17  p b t u v A O x'   (15 fields)
LG_100_udp ==
    <<32, 32, 50, 9, 49, 32, 101, 32, 115, 32, 49, 48, 48, 32, 100, 32, 49,
      55, 32, 32, 112, 32, 98, 32, 116, 32, 117, 32, 118, 32, 65, 32, 79, 32,
      120>>
\* '2 1 e s 25 d 1 p b t u v A O\n'
LG_25_icmp ==
    <<50, 32, 49, 32, 101, 32, 115, 32, 50, 53, 32, 100, 32, 49, 32, 112, 32,
      98, 32, 116, 32, 117, 32, 118, 32, 65, 32, 79, 10>>
\* '2 1 e s 100 d tcp p b t u v A O\n'
LG_100_other ==
    <<50, 32, 49, 32, 101, 32, 115, 32, 49, 48, 48, 32, 100, 32, 116, 99,
      112, 32, 112, 32, 98, 32, 116, 32, 117, 32, 118, 32, 65, 32, 79, 10>>
\* '2 1 e s 25 d 6 p b t u v A\n'   (13 fields)
LG_short ==
    <<50, 32, 49, 32, 101, 32, 115, 32, 50, 53, 32, 100, 32, 54, 32, 112, 32,
      98, 32, 116, 32, 117, 32, 118, 32, 65, 10>>
\* ' \n'
LG_blank == <<32, 10>>

LogLines ==
    {LG_25_tcp, LG_100_udp, LG_25_icmp, LG_100_other, LG_short, LG_blank}

Files(lines, n) == UNION {[1..k -> lines] : k \in 0..n}

\* ------------------------------------------------------------------------
\* str methods.

\* the ASCII code points for which str.isspace() is true
Whitespace == {9, 10, 11, 12, 13, 28, 29, 30, 31, 32}

RECURSIVE LStrip(_)
LStrip(s) ==
    IF s # <<>> /\ Head(s) \in Whitespace THEN LStrip(Tail(s)) ELSE s

RECURSIVE RStrip(_)
RStrip(s) ==
    IF s # <<>> /\ s[Len(s)] \in Whitespace
    THEN RStrip(SubSeq(s, 1, Len(s) - 1))
    ELSE s

\* s.strip()
Strip(s) == RStrip(LStrip(s))

\* a lower() that keeps the case
LowerKeepsCase(s) == s

\* s.lower(), on ASCII
Lower(s) == [i \in 1..Len(s) |-> IF s[i] \in 65..90 THEN s[i] + 32 ELSE s[i]]

\* s.split(sep), sep one character: one item more than there are separators
RECURSIVE SplitSep(_, _, _)
SplitSep(s, sep, cur) ==
    IF s = <<>> THEN <<cur>>
    ELSE IF Head(s) = sep
         THEN <<cur>> \o SplitSep(Tail(s), sep, <<>>)
         ELSE SplitSep(Tail(s), sep, Append(cur, Head(s)))

\* s.split(): the maximal runs of non-whitespace, no empty items
RECURSIVE SplitWs(_, _)
SplitWs(s, cur) ==
    IF s = <<>> THEN (IF cur = <<>> THEN <<>> ELSE <<cur>>)
    ELSE IF Head(s) \in Whitespace
         THEN (IF cur = <<>> THEN <<>> ELSE <<cur>>) \o SplitWs(Tail(s), <<>>)
         ELSE SplitWs(Tail(s), Append(cur, Head(s)))

\* sep in s
Contains(s, sep) == \E i \in 1..Len(s) : s[i] = sep

\* str(n) for n >= 0
RECURSIVE IntToStr(_)
IntToStr(n) ==
    IF n < 10 THEN <<48 + n>> ELSE Append(IntToStr(n \div 10), 48 + (n % 10))

\* a comparison of the strings as numbers: the shorter string is the smaller
StrLessNumeric(a, b) ==
    \/ Len(a) < Len(b)
    \/ /\ Len(a) = Len(b)
       /\ \E n \in 1..Len(a) :
              /\ \A i \in 1..(n - 1) : a[i] = b[i]
              /\ a[n] < b[n]

\* a < b on str: the first differing code point decides, a proper prefix is less
RECURSIVE StrLess(_, _)
StrLess(a, b) ==
    IF b = <<>> THEN FALSE
    ELSE IF a = <<>> THEN TRUE
    ELSE IF Head(a) # Head(b) THEN Head(a) < Head(b)
    ELSE StrLess(Tail(a), Tail(b))

\* a < b on (str, str) tuples
KeyLess(a, b) == StrLess(a[1], b[1]) \/ (a[1] = b[1] /\ StrLess(a[2], b[2]))

\* ------------------------------------------------------------------------
\* dict operations.

EmptyDict == <<>>

\* an insert(0, tag) where the code appends
AppendTagFront(d, k, tag) ==
    IF k \in DOMAIN d THEN [d EXCEPT ![k] = <<tag>> \o @]
    ELSE [x \in DOMAIN d \cup {k} |-> IF x = k THEN <<tag>> ELSE d[x]]

\* defaultdict(list): d[k].append(tag)
AppendTag(d, k, tag) ==
    IF k \in DOMAIN d THEN [d EXCEPT ![k] = Append(@, tag)]
    ELSE [x \in DOMAIN d \cup {k} |-> IF x = k THEN <<tag>> ELSE d[x]]

\* d[k] = 1 where the code increments
IncrOnce(d, k) == [x \in DOMAIN d \cup {k} |-> IF x = k THEN 1 ELSE d[x]]

\* defaultdict(int): d[k] += 1
Incr(d, k) ==
    IF k \in DOMAIN d THEN [d EXCEPT ![k] = @ + 1]
    ELSE [x \in DOMAIN d \cup {k} |-> IF x = k THEN 1 ELSE d[x]]

\* an empty default
DefaultTagsEmpty == <<>>

\* the default of lookup_dict.get(key, ["Untagged"])
DefaultTags == <<S_Untagged>>

\* d.get(k, default)
Get(d, k, default) == IF k \in DOMAIN d THEN d[k] ELSE default

\* what the subscription d[k] leaves of a defaultdict(list): a miss inserts k
AfterGetItem(d, k) ==
    IF k \in DOMAIN d THEN d
    ELSE [x \in DOMAIN d \cup {k} |-> IF x = k THEN <<>> ELSE d[x]]

\* what d.get(k, default) leaves of d: get never calls the default factory
AfterGet(d, k) == d

\* for tag in tags: tag_counts[tag] += 1
RECURSIVE CountTags(_, _)
CountTags(d, tags) ==
    IF tags = <<>> THEN d ELSE CountTags(Incr(d, Head(tags)), Tail(tags))

\* the increment moved into the loop over tags
CountRecordPerTag(d, k, tags) ==
    CountTags(d, [i \in 1..Len(tags) |-> k])

\* port_protocol_counts[(dstport, protocol)] += 1, after the loop over tags
CountRecord(d, k, tags) == Incr(d, k)

\* a resolver that passes an unrecognised protocol number through
ResolveProtocolPassThrough(protocol_num) ==
    IF protocol_num = S_6 THEN S_tcp
    ELSE IF protocol_num = S_17 THEN S_udp
    ELSE protocol_num

\* "tcp" if protocol_num == "6" else "udp" if protocol_num == "17" else "icmp"
ResolveProtocol(protocol_num) ==
    IF protocol_num = S_6 THEN S_tcp
    ELSE IF protocol_num = S_17 THEN S_udp
    ELSE S_icmp

\* the comparison off by one: len(fields) < 13
HasAlmostEnoughFields(fields) == Len(fields) >= MinFields - 1

\* len(fields) < 14 is the skip; this is its negation
HasEnoughFields(fields) == Len(fields) >= MinFields

\* sorted(d.items()) for a dict keyed by str: (key, count) tuples ascending
RECURSIVE SortedTagItems(_)
SortedTagItems(items) ==
    IF items = {} THEN <<>>
    ELSE LET m == CHOOSE x \in items : \A y \in items :
                     ~(StrLess(y[1], x[1]) \/ (y[1] = x[1] /\ y[2] < x[2]))
         IN  <<m>> \o SortedTagItems(items \ {m})

\* sorted(d.items()) for a dict keyed by (str, str)
RECURSIVE SortedPortItems(_)
SortedPortItems(items) ==
    IF items = {} THEN <<>>
    ELSE LET m == CHOOSE x \in items : \A y \in items :
                     ~(KeyLess(y[1], x[1]) \/ (y[1] = x[1] /\ y[2] < x[2]))
         IN  <<m>> \o SortedPortItems(items \ {m})

Items(d) == {<<k, d[k]>> : k \in DOMAIN d}

\* f"{tag},{count}\n"
TagRow(item) == item[1] \o <<Comma>> \o IntToStr(item[2]) \o <<Newline>>

\* f"{port},{protocol},{count}\n"
PortRow(item) ==
    item[1][1] \o <<Comma>> \o item[1][2] \o <<Comma>> \o IntToStr(item[2])
    \o <<Newline>>

\* the sequence of file.write calls of save_results
Report(tc, ppc) ==
    LET tagItems == SortedTagItems(Items(tc))
        portItems == SortedPortItems(Items(ppc))
    IN  <<HdrTagCounts, HdrTagCols>>
        \o [i \in 1..Len(tagItems) |-> TagRow(tagItems[i])]
        \o <<HdrPortCounts, HdrPortCols>>
        \o [i \in 1..Len(portItems) |-> PortRow(portItems[i])]

\* ------------------------------------------------------------------------
\* State.

VARIABLES
    lookup_file,            \* the lines of the lookup file
    log_file,               \* the lines of the flow log file, once it is open
    pc,                     \* "load", "parse", "save", "done" or "error"
    lookup_pos,             \* lines of lookup_file the loader has consumed
    log_pos,                \* lines of log_file the parser has consumed
    lookup_dict,            \* (dstport, protocol) -> list of tags
    tag_counts,             \* tag -> count
    port_protocol_counts,   \* (dstport, protocol) -> count
    output                  \* the strings written to the output file

vars ==
    <<lookup_file, log_file, pc, lookup_pos, log_pos, lookup_dict, tag_counts,
      port_protocol_counts, output>>

Init ==
    /\ lookup_file \in Files(LookupLines, MaxLookupLines)
    /\ log_file = <<>>
    /\ pc = "load"
    /\ lookup_pos = 0
    /\ log_pos = 0
    /\ lookup_dict = EmptyDict
    /\ tag_counts = EmptyDict
    /\ port_protocol_counts = EmptyDict
    /\ output = <<>>

\* ------------------------------------------------------------------------
\* load_lookup_table.

\* the line the loader reads next, stripped
LookupLine == Strip(lookup_file[lookup_pos + 1])

\* [item.strip().lower() for item in line.split(',')]
LookupItems(line) ==
    LET parts == SplitSep(line, Comma, <<>>)
    IN  [i \in 1..Len(parts) |-> Lower(Strip(parts[i]))]

\* if not line or ',' not in line: continue
LoadSkip ==
    /\ pc = "load"
    /\ lookup_pos < Len(lookup_file)
    /\ (LookupLine = <<>> \/ ~Contains(LookupLine, Comma))
    /\ lookup_pos' = lookup_pos + 1
    /\ UNCHANGED <<lookup_file, log_file, pc, log_pos, lookup_dict,
                   tag_counts, port_protocol_counts, output>>

\* dstport, protocol, tag = [...]; lookup_dict[(dstport, protocol)].append(tag)
LoadAppend ==
    /\ pc = "load"
    /\ lookup_pos < Len(lookup_file)
    /\ LookupLine # <<>> /\ Contains(LookupLine, Comma)
    /\ LET items == LookupItems(LookupLine)
       IN  /\ Len(items) = 3
           /\ lookup_dict' = AppendTag(lookup_dict, <<items[1], items[2]>>, items[3])
    /\ lookup_pos' = lookup_pos + 1
    /\ UNCHANGED <<lookup_file, log_file, pc, log_pos, tag_counts,
                   port_protocol_counts, output>>

\* the unpacking of a list of other than three items raises ValueError, which
\* nothing catches: the run ends with the line unconsumed
LoadRaise ==
    /\ pc = "load"
    /\ lookup_pos < Len(lookup_file)
    /\ LookupLine # <<>> /\ Contains(LookupLine, Comma)
    /\ Len(LookupItems(LookupLine)) # 3
    /\ pc' = "error"
    /\ UNCHANGED <<lookup_file, log_file, lookup_pos, log_pos, lookup_dict,
                   tag_counts, port_protocol_counts, output>>

\* return lookup_dict; main calls parse_flow_logs, which creates the two tables
\* and opens the log file
LoadReturn ==
    /\ pc = "load"
    /\ lookup_pos = Len(lookup_file)
    /\ pc' = "parse"
    /\ tag_counts' = EmptyDict
    /\ port_protocol_counts' = EmptyDict
    /\ log_file' \in Files(LogLines, MaxLogLines)
    /\ UNCHANGED <<lookup_file, lookup_pos, log_pos, lookup_dict, output>>

\* ------------------------------------------------------------------------
\* parse_flow_logs.

\* line.strip().split() of the line the parser reads next
LogFields == SplitWs(Strip(log_file[log_pos + 1]), <<>>)

\* if not line: continue / if len(fields) < 14: continue
ParseSkip ==
    /\ pc = "parse"
    /\ log_pos < Len(log_file)
    /\ (Strip(log_file[log_pos + 1]) = <<>> \/ ~HasEnoughFields(LogFields))
    /\ log_pos' = log_pos + 1
    /\ UNCHANGED <<lookup_file, log_file, pc, lookup_pos, lookup_dict,
                   tag_counts, port_protocol_counts, output>>

\* the rest of the loop body
ParseClassify ==
    /\ pc = "parse"
    /\ log_pos < Len(log_file)
    /\ Strip(log_file[log_pos + 1]) # <<>>
    /\ HasEnoughFields(LogFields)
    /\ LET dstport == LogFields[5]
           protocol == ResolveProtocol(LogFields[7])
           key == <<dstport, protocol>>
           tags == Get(lookup_dict, key, DefaultTags)
       IN  /\ lookup_dict' = AfterGet(lookup_dict, key)
           /\ tag_counts' = CountTags(tag_counts, tags)
           /\ port_protocol_counts' = CountRecord(port_protocol_counts, key, tags)
    /\ log_pos' = log_pos + 1
    /\ UNCHANGED <<lookup_file, log_file, pc, lookup_pos, output>>

\* return tag_counts, port_protocol_counts
ParseReturn ==
    /\ pc = "parse"
    /\ log_pos = Len(log_file)
    /\ pc' = "save"
    /\ UNCHANGED <<lookup_file, log_file, lookup_pos, log_pos, lookup_dict,
                   tag_counts, port_protocol_counts, output>>

\* ------------------------------------------------------------------------
\* save_results.

SaveResults ==
    /\ pc = "save"
    /\ output' = Report(tag_counts, port_protocol_counts)
    /\ pc' = "done"
    /\ UNCHANGED <<lookup_file, log_file, lookup_pos, log_pos, lookup_dict,
                   tag_counts, port_protocol_counts>>

Next ==
    \/ LoadSkip
    \/ LoadAppend
    \/ LoadRaise
    \/ LoadReturn
    \/ ParseSkip
    \/ ParseClassify
    \/ ParseReturn
    \/ SaveResults

Spec == Init /\ [][Next]_vars

\* ------------------------------------------------------------------------
\* Vocabulary of the properties, stated on the input text itself.

\* the number of commas of a line
CommaCount(s) == Cardinality({i \in 1..Len(s) : s[i] = Comma})

\* the number of whitespace-separated fields of a line
FieldCount(s) ==
    Cardinality({i \in 1..Len(s) :
                    s[i] \notin Whitespace /\ (i = 1 \/ s[i - 1] \in Whitespace)})

\* a log line that is classified: non-empty, at least 14 fields
Classified(line) == FieldCount(line) >= 14

\* the (port, resolved protocol) key and the tag list of a classified line
KeyOfLog(line) ==
    LET f == SplitWs(Strip(line), <<>>) IN <<f[5], ResolveProtocol(f[7])>>

TagsOfLog(line) == Get(lookup_dict, KeyOfLog(line), <<S_Untagged>>)

\* d[k], 0 for a key the table does not have
Count(d, k) == IF k \in DOMAIN d THEN d[k] ELSE 0

RECURSIVE SumOver(_, _)
SumOver(d, keys) ==
    IF keys = {} THEN 0
    ELSE LET k == CHOOSE x \in keys : TRUE IN d[k] + SumOver(d, keys \ {k})

\* the sum of the counts of a table
Total(d) == SumOver(d, DOMAIN d)

\* the number of times x occurs in a list
Occurrences(seq, x) == Cardinality({i \in 1..Len(seq) : seq[i] = x})

\* the log lines consumed so far that are classified
ClassifiedSoFar == {i \in 1..log_pos : Classified(log_file[i])}

RECURSIVE SumTagLists(_)
SumTagLists(idx) ==
    IF idx = {} THEN 0
    ELSE LET i == CHOOSE x \in idx : TRUE
         IN  Len(TagsOfLog(log_file[i])) + SumTagLists(idx \ {i})

\* a step of parse_flow_logs that consumes a line
ConsumesLogLine == pc = "parse" /\ log_pos < Len(log_file) /\ log_pos' = log_pos + 1

\* a lookup line with exactly the three fields port, protocol, tag
WellFormed(line) == Strip(line) # <<>> /\ CommaCount(line) = 2

KeyOfLookup(line) ==
    LET it == LookupItems(Strip(line)) IN <<it[1], it[2]>>

TagOfLookup(line) == LookupItems(Strip(line))[3]

\* the tags of the well-formed lines 1..n that carry key k, in file order
RECURSIVE TagsUpTo(_, _)
TagsUpTo(k, n) ==
    IF n = 0 THEN <<>>
    ELSE LET rest == TagsUpTo(k, n - 1)
             line == lookup_file[n]
         IN  IF WellFormed(line) /\ KeyOfLookup(line) = k
             THEN Append(rest, TagOfLookup(line))
             ELSE rest

\* a is before b in the lexicographic order of the code points
LexBefore(a, b) ==
    \E n \in 0..Len(a) :
        /\ n <= Len(b)
        /\ \A i \in 1..n : a[i] = b[i]
        /\ \/ n = Len(a) /\ n < Len(b)
           \/ n < Len(a) /\ n < Len(b) /\ a[n + 1] < b[n + 1]

KeyBefore(a, b) == LexBefore(a[1], b[1]) \/ (a[1] = b[1] /\ LexBefore(a[2], b[2]))

\* the rows of the Tag Counts section of the report
TagRows ==
    LET i == CHOOSE j \in 1..Len(output) : output[j] = HdrPortCounts
    IN  SubSeq(output, 3, i - 1)

\* the number of valid records of the whole log
ValidCount == Cardinality({i \in 1..Len(log_file) : Classified(log_file[i])})

\* ------------------------------------------------------------------------
\* C1: a non-empty lookup line with fewer than two commas is skipped without
\* an error: the loader never stops with an error on such a line.
C1_MalformedLineSkipped ==
    pc = "error" => CommaCount(lookup_file[lookup_pos + 1]) >= 2

\* C2: a classified record with key (p, q) and tag list T adds exactly 1 to
\* port_protocol_counts[(p, q)] and exactly the number of occurrences of t in
\* T to tag_counts[t], for every tag t; so the port/protocol counts sum to the
\* number of classified records and the tag counts to the sum of the lengths
\* of their tag lists.
C2_OncePerRecordOncePerTag ==
    /\ [][(ConsumesLogLine /\ Classified(log_file[log_pos + 1])) =>
            LET line == log_file[log_pos + 1]
                key == KeyOfLog(line)
                T == TagsOfLog(line)
            IN  /\ Count(port_protocol_counts', key)
                     = Count(port_protocol_counts, key) + 1
                /\ Total(port_protocol_counts') = Total(port_protocol_counts) + 1
                /\ \A t \in DOMAIN tag_counts \cup DOMAIN tag_counts' :
                      Count(tag_counts', t) = Count(tag_counts, t) + Occurrences(T, t)
                /\ \A i \in 1..Len(T) : T[i] \in DOMAIN tag_counts'
                /\ Total(tag_counts') = Total(tag_counts) + Len(T)]_vars
    /\ [](/\ Total(port_protocol_counts) = Cardinality(ClassifiedSoFar)
          /\ Total(tag_counts) = SumTagLists(ClassifiedSoFar))

C2_Witness ==
    /\ Total(port_protocol_counts) = 1
    /\ \E t \in DOMAIN tag_counts : tag_counts[t] = 2

\* C3: a record of at least 14 fields whose key is not in the lookup table
\* adds 1 to tag_counts["Untagged"] and 1 to port_protocol_counts[key], and
\* changes no other entry of either table.
C3_MissCountsUntaggedOnce ==
    [][(/\ ConsumesLogLine
        /\ Classified(log_file[log_pos + 1])
        /\ KeyOfLog(log_file[log_pos + 1]) \notin DOMAIN lookup_dict) =>
          LET key == KeyOfLog(log_file[log_pos + 1])
          IN  /\ tag_counts' =
                   [t \in DOMAIN tag_counts \cup {S_Untagged} |->
                       IF t = S_Untagged THEN Count(tag_counts, t) + 1
                       ELSE tag_counts[t]]
              /\ port_protocol_counts' =
                   [k \in DOMAIN port_protocol_counts \cup {key} |->
                       IF k = key THEN Count(port_protocol_counts, k) + 1
                       ELSE port_protocol_counts[k]]]_vars

C3_Witness ==
    /\ pc = "parse"
    /\ log_pos = 2
    /\ lookup_dict # EmptyDict
    /\ Classified(log_file[1])
    /\ KeyOfLog(log_file[1]) \in DOMAIN lookup_dict
    /\ Classified(log_file[2])
    /\ KeyOfLog(log_file[2]) \notin DOMAIN lookup_dict
    /\ Count(tag_counts, S_Untagged) = 1

\* C4: a log line that is empty after trimming or has fewer than 14 fields is
\* consumed with both tables unchanged and without an error: the parser goes
\* on to the next line.
C4_ShortLineChangesNothing ==
    [][(/\ pc = "parse"
        /\ log_pos < Len(log_file)
        /\ ~Classified(log_file[log_pos + 1])) =>
          /\ log_pos' = log_pos + 1
          /\ pc' = "parse"
          /\ tag_counts' = tag_counts
          /\ port_protocol_counts' = port_protocol_counts]_vars

C4_Witness ==
    /\ pc = "parse"
    /\ log_pos = 2
    /\ Classified(log_file[1])
    /\ FieldCount(log_file[2]) = 13
    /\ Total(port_protocol_counts) = 1

\* C5: the tag list stored under a key is exactly the sequence of the (trimmed,
\* lowercased) tags of the well-formed lines read so far that carry the key,
\* in file order, duplicates kept; a key is stored only if some line carries it.
\* Stated of the loader, from its first line to the table it returns.
C5_OrderPreservingPerKey ==
    (pc \in {"load", "error"} \/ log_pos = 0) =>
    LET seen == {KeyOfLookup(lookup_file[i]) :
                    i \in {j \in 1..lookup_pos : WellFormed(lookup_file[j])}}
    IN  /\ DOMAIN lookup_dict = seen
        /\ \A k \in seen : lookup_dict[k] = TagsUpTo(k, lookup_pos)
        /\ \A k \in DOMAIN lookup_dict : \A i \in 1..Len(lookup_dict[k]) :
              LET tag == lookup_dict[k][i]
              IN  /\ \A j \in 1..Len(tag) : tag[j] \notin 65..90
                  /\ tag # <<>> =>
                        (tag[1] \notin Whitespace /\ tag[Len(tag)] \notin Whitespace)

C5_Witness ==
    /\ pc = "parse"
    /\ \E k \in DOMAIN lookup_dict :
          /\ Len(lookup_dict[k]) = 2
          /\ lookup_dict[k][1] # lookup_dict[k][2]
          /\ lookup_dict[k][2] = <<117, 110, 116, 97, 103, 103, 101, 100>>

\* C6: field 6 resolves to "tcp" when it is "6", to "udp" when it is "17" and
\* to "icmp" otherwise: the keys of port_protocol_counts are exactly the
\* (field 4, resolved field 6) pairs of the classified records, and their
\* protocol is one of the three names; the parser never fails.
C6_ThreeWayResolution ==
    LET resolved(field6) ==
            IF field6 = <<54>> THEN <<116, 99, 112>>
            ELSE IF field6 = <<49, 55>> THEN <<117, 100, 112>>
            ELSE <<105, 99, 109, 112>>
        key(i) ==
            LET f == SplitWs(Strip(log_file[i]), <<>>) IN <<f[5], resolved(f[7])>>
    IN  /\ DOMAIN port_protocol_counts = {key(i) : i \in ClassifiedSoFar}
        /\ \A k \in DOMAIN port_protocol_counts :
              k[2] \in {<<116, 99, 112>>, <<117, 100, 112>>, <<105, 99, 109, 112>>}
        /\ pc = "error" => lookup_pos < Len(lookup_file)

C6_Witness ==
    /\ pc = "done"
    /\ log_file = <<LG_100_other, LG_25_icmp>>
    /\ DOMAIN port_protocol_counts
         = {<<(<<49, 48, 48>>), S_icmp>>, <<(<<50, 53>>), S_icmp>>}

\* C7: the report has one row per key of each table, the tag rows ascending by
\* tag and the port/protocol rows ascending by (port, protocol), both in the
\* lexicographic order of the strings (port "100" before port "25"); it is a
\* function of the two tables alone.
C7_ReportSortedLexicographically ==
    pc = "done" =>
        LET nt == Cardinality(DOMAIN tag_counts)
            np == Cardinality(DOMAIN port_protocol_counts)
            tagRank(t) == Cardinality({u \in DOMAIN tag_counts : LexBefore(u, t)})
            portRank(k) ==
                Cardinality({u \in DOMAIN port_protocol_counts : KeyBefore(u, k)})
        IN  /\ Len(output) = 4 + nt + np
            /\ output[1] = HdrTagCounts
            /\ output[2] = HdrTagCols
            /\ \A t \in DOMAIN tag_counts :
                  output[3 + tagRank(t)]
                    = t \o <<44>> \o IntToStr(tag_counts[t]) \o <<10>>
            /\ output[3 + nt] = HdrPortCounts
            /\ output[4 + nt] = HdrPortCols
            /\ \A k \in DOMAIN port_protocol_counts :
                  output[5 + nt + portRank(k)]
                    = k[1] \o <<44>> \o k[2] \o <<44>>
                      \o IntToStr(port_protocol_counts[k]) \o <<10>>

C7_Witness ==
    /\ pc = "done"
    /\ Len(output) = 8
    /\ SubSeq(output[3], 1, 9) = <<85, 110, 116, 97, 103, 103, 101, 100, 44>>
    /\ SubSeq(output[4], 1, 6) = <<115, 118, 95, 112, 50, 44>>
    /\ SubSeq(output[7], 1, 4) = <<49, 48, 48, 44>>
    /\ SubSeq(output[8], 1, 3) = <<50, 53, 44>>

\* C8 as stated: with an empty lookup table the tag table and the Tag Counts
\* section hold exactly one row, "Untagged" with the number of valid records,
\* for any log file.
C8_AlwaysOneUntaggedRow ==
    (pc = "done" /\ lookup_dict = EmptyDict) =>
        /\ DOMAIN tag_counts = {S_Untagged}
        /\ tag_counts[S_Untagged] = ValidCount
        /\ TagRows = <<S_Untagged \o <<44>> \o IntToStr(ValidCount) \o <<10>> >>

\* C8 as amended: with an empty lookup table, a log with at least one valid
\* record yields exactly the row "Untagged" with the number of valid records;
\* a log with no valid record yields an empty tag table and no tag row.
C8_OneUntaggedRowUnlessNoRecord ==
    (pc = "done" /\ lookup_dict = EmptyDict) =>
        IF ValidCount = 0
        THEN tag_counts = EmptyDict /\ TagRows = <<>>
        ELSE /\ DOMAIN tag_counts = {S_Untagged}
             /\ tag_counts[S_Untagged] = ValidCount
             /\ TagRows = <<S_Untagged \o <<44>> \o IntToStr(ValidCount) \o <<10>> >>

C8_Witness ==
    /\ pc = "done"
    /\ lookup_dict = EmptyDict
    /\ ValidCount = 2
    /\ Len(TagRows) = 1

\* C9: parse_flow_logs leaves the lookup table as it was loaded: no step of
\* the parser, a lookup miss included, changes its key set or a tag list.
C9_LookupTableImmutable ==
    [][pc = "parse" => lookup_dict' = lookup_dict]_vars

C9_Witness ==
    /\ pc = "save"
    /\ lookup_dict # EmptyDict
    /\ \E i \in ClassifiedSoFar : KeyOfLog(log_file[i]) \notin DOMAIN lookup_dict

\* C10: tag_counts["Untagged"] is the number of valid records consumed whose
\* key is not in the lookup table: a lookup tag is lowercased, so a matched
\* record never counts as "Untagged".
C10_UntaggedCountsMissesOnly ==
    Count(tag_counts, S_Untagged)
      = Cardinality({i \in ClassifiedSoFar :
                        KeyOfLog(log_file[i]) \notin DOMAIN lookup_dict})

C10_Witness ==
    /\ pc = "done"
    /\ Count(tag_counts, S_Untagged) = 1
    /\ Count(tag_counts, <<117, 110, 116, 97, 103, 103, 101, 100>>) = 1

====
